---- MODULE Spec2Model ----
(***************************************************************************)
(* Model of eriksench/text-to-qrcode: the capacity-aware text splitter     *)
(* (TextToQRCode.split_text), the converter facade built on it             *)
(* (get_text_info, generate_qrcode_images, text_to_qrcode) and the         *)
(* command-line front end (cli.main).                                      *)
(*                                                                         *)
(* A Python str is a sequence of Unicode code points, a bytes object a     *)
(* sequence of integers 0..255.  Python indexes from 0, TLA+ from 1: the   *)
(* Python slice b[s:e] is SubSeq(b, s + 1, e).                             *)
(***************************************************************************)
EXTENDS Integers, Sequences, FiniteSets, TLC

VARIABLES
    pc,            \* position of the running call ("returned", "raised", "exit" at its end)
    ret,           \* positions to continue at when the running call returns
    level,         \* self.error_correction_level
    text,          \* the text argument
    text_bytes,    \* split_text: text.encode('utf-8')
    num_parts,     \* split_text: math.ceil(len(text_bytes) / max_bytes)
    start,         \* split_text: left end of the current window (byte offset)
    end,           \* split_text: right end of the current window (byte offset)
    i,             \* split_text: loop index of "for i in range(num_parts)"
    parts,         \* split_text: the list of segments built so far
    info,          \* the dict get_text_info returned, <<>> before it is called
    images,        \* generate_qrcode_images: the list of (image, segment) pairs
    image_paths,   \* text_to_qrcode: the list of written file names
    pos,           \* number of segments the "for part in text_parts" loop has done
    img,           \* text_to_qrcode: the image generate_qrcode just returned
    disk,          \* the file system: set of <<file name, content>>
    saves,         \* file names img.save was called with, in call order
    err,           \* the exception that ended the call, "" when none
    env,           \* cli: the parsed arguments and what the input sources hold
    source,        \* cli: where main obtained text from, "" before it has
    exit_code,     \* cli: status the process exited with, -1 while it runs
    calls          \* names of the converter's methods entered so far

splitVars  == <<text_bytes, num_parts, start, end, i, parts>>
facadeVars == <<info, images, image_paths, pos, img, disk, saves>>
cliVars    == <<env, source, exit_code>>
vars == <<pc, ret, level, text, splitVars, facadeVars, cliVars, err, calls>>

-----------------------------------------------------------------------------
(* Capacity table *)

MaxBytesL == 2900
MaxBytesM == 2300
MaxBytesQ == 1600
MaxBytesH == 1200

Levels == {"L", "M", "Q", "H"}

MAX_BYTES_PER_QR ==
    [l \in Levels |->
        CASE l = "L" -> MaxBytesL
          [] l = "M" -> MaxBytesM
          [] l = "Q" -> MaxBytesQ
          [] l = "H" -> MaxBytesH]

-----------------------------------------------------------------------------
(* Characters and UTF-8 *)

\* the first character of each UTF-8 width: "a", U+00E9, U+4E2D, U+1F600
Alphabet == <<97, 233, 20013, 128512>>

\* ord() of the characters the program itself writes or tests for
Ord(c) ==
    CASE c = "[" -> 91
      [] c = "/" -> 47
      [] c = "]" -> 93
      [] c = "\n" -> 10
      [] c = " " -> 32
      [] c = "\t" -> 9
      [] c = "0" -> 48

\* str.encode('utf-8') of one code point
EncodeChar(cp) ==
    IF cp < 128 THEN <<cp>>
    ELSE IF cp < 2048 THEN <<192 + (cp \div 64), 128 + (cp % 64)>>
    ELSE IF cp < 65536 THEN
        <<224 + (cp \div 4096), 128 + ((cp \div 64) % 64), 128 + (cp % 64)>>
    ELSE
        <<240 + (cp \div 262144), 128 + ((cp \div 4096) % 64),
          128 + ((cp \div 64) % 64), 128 + (cp % 64)>>

RECURSIVE EncodeRange(_, _, _)
EncodeRange(t, lo, hi) ==
    IF lo > hi THEN <<>>
    ELSE IF lo = hi THEN EncodeChar(t[lo])
    ELSE LET mid == (lo + hi) \div 2
         IN  EncodeRange(t, lo, mid) \o EncodeRange(t, mid + 1, hi)

\* str.encode('utf-8')
Encode(t) == EncodeRange(t, 1, Len(t))

IsCont(b) == b >= 128 /\ b <= 191

\* number of bytes announced by a lead byte, 0 for a byte that cannot lead
LeadWidth(b) ==
    IF b < 128 THEN 1
    ELSE IF b >= 194 /\ b <= 223 THEN 2
    ELSE IF b >= 224 /\ b <= 239 THEN 3
    ELSE IF b >= 240 /\ b <= 244 THEN 4
    ELSE 0

\* the strict decoder's extra constraint on the byte after the lead byte
SecondOk(lead, b2) ==
    /\ IsCont(b2)
    /\ (lead = 224 => b2 >= 160)
    /\ (lead = 237 => b2 <= 159)
    /\ (lead = 240 => b2 >= 144)
    /\ (lead = 244 => b2 <= 143)

\* a decoder that accepts every slice (errors='ignore')
CanDecodeAnything(b, s, e) == TRUE

\* bytes[s:e].decode('utf-8') does not raise UnicodeDecodeError
CanDecode(b, s, e) ==
    \A p \in (s + 1)..e :
        IF IsCont(b[p])
        THEN \E d \in 1..3 :
                /\ p - d >= s + 1
                /\ LeadWidth(b[p - d]) > d
                /\ \A q \in (p - d + 1)..(p - 1) : IsCont(b[q])
        ELSE LET w == LeadWidth(b[p])
             IN  /\ w >= 1
                 /\ p + w - 1 <= e
                 /\ \A q \in (p + 1)..(p + w - 1) : IsCont(b[q])
                 /\ (w >= 2 => SecondOk(b[p], b[p + 1]))

\* the code point of the character whose lead byte is b[p]
DecodeChar(b, p) ==
    LET w == LeadWidth(b[p])
    IN  IF w = 1 THEN b[p]
        ELSE IF w = 2 THEN (b[p] - 192) * 64 + (b[p + 1] - 128)
        ELSE IF w = 3 THEN
            (b[p] - 224) * 4096 + (b[p + 1] - 128) * 64 + (b[p + 2] - 128)
        ELSE (b[p] - 240) * 262144 + (b[p + 1] - 128) * 4096
                 + (b[p + 2] - 128) * 64 + (b[p + 3] - 128)

\* last position <= p that holds a lead byte, in a well-formed sequence
PrevLead(b, p) ==
    IF ~IsCont(b[p]) THEN p
    ELSE IF ~IsCont(b[p - 1]) THEN p - 1
    ELSE IF ~IsCont(b[p - 2]) THEN p - 2
    ELSE p - 3

\* decode of the well-formed bytes b[lo..hi] (1-based, inclusive), halving
\* the range at a character boundary
RECURSIVE DecodeRange(_, _, _)
DecodeRange(b, lo, hi) ==
    IF lo > hi THEN <<>>
    ELSE IF lo + LeadWidth(b[lo]) - 1 >= hi THEN <<DecodeChar(b, lo)>>
    ELSE LET m   == PrevLead(b, (lo + hi + 1) \div 2)
             mid == IF m <= lo THEN lo + LeadWidth(b[lo]) ELSE m
         IN  DecodeRange(b, lo, mid - 1) \o DecodeRange(b, mid, hi)

\* bytes[s:e].decode('utf-8'), for a slice that decodes
Decode(b, s, e) == DecodeRange(b, s + 1, e)

-----------------------------------------------------------------------------
(* Inputs *)

MaxK     == 2   \* texts reach about MaxK budgets
MaxDelta == 1   \* ... give or take MaxDelta characters
MaxPad   == 1   \* ... after at most MaxPad leading one-byte characters

Max(a, b) == IF a >= b THEN a ELSE b
Min(a, b) == IF a <= b THEN a ELSE b

\* the kinds of text: characters of 1, 2, 3 or 4 bytes each, or (kind 5) of
\* widths 1, 2, 3, 4 in turn
Kinds == 1..5

\* the j-th character of a text of a kind; seven characters of each width
\* take turns, so that equal ranges of the text differ unless they coincide
CharAt(kind, j) ==
    Alphabet[IF kind <= 4 THEN kind ELSE 1 + (j % 4)] + (j % 7)

Chars(kind, n) == [j \in 1..n |-> CharAt(kind, j)]

\* twice the mean number of bytes of a character of a kind
TwiceWidth(kind) == IF kind <= 4 THEN 2 * kind ELSE 5

\* pad one-byte characters, then enough characters of a kind to come within
\* delta characters of k budgets
TextOf(l, kind, k, delta, pad) ==
    Chars(1, pad)
        \o Chars(kind, Max(0, ((2 * k * MAX_BYTES_PER_QR[l]) \div TwiceWidth(kind)) + delta))

\* the 5000-byte one-byte-character text, at level H
ExampleTexts(l) == IF l = "H" THEN {Chars(1, 5000)} ELSE {}

SplitTexts(l) ==
    { TextOf(l, kind, k, delta, pad) :
        kind \in Kinds, k \in 0..MaxK, delta \in (0 - MaxDelta)..MaxDelta,
        pad \in 0..MaxPad } \cup ExampleTexts(l)

-----------------------------------------------------------------------------
(* TextToQRCode.split_text *)

RECURSIVE Str(_)
\* str(n) for n >= 0
Str(n) ==
    IF n < 10 THEN <<Ord("0") + n>>
    ELSE Str(n \div 10) \o <<Ord("0") + (n % 10)>>

\* the marker numbered from 0 instead of 1
PartPrefixFromZero(idx, n) ==
    <<Ord("[")>> \o Str(idx - 1) \o <<Ord("/")>> \o Str(n) \o <<Ord("]"), Ord("\n")>>

\* f"[{i+1}/{num_parts}]\n"
PartPrefix(idx, n) ==
    <<Ord("[")>> \o Str(idx) \o <<Ord("/")>> \o Str(n) \o <<Ord("]"), Ord("\n")>>

\* the quotient rounded down instead of up
CeilRoundsDown(a, b) == a \div b

\* math.ceil(a / b) for a >= 0, b > 0
Ceil(a, b) == (a + b - 1) \div b

Return ==
    /\ pc' = Head(ret)
    /\ ret' = Tail(ret)

\* an exception leaves the call: it propagates to cli.main's handler, if any
Raise(e) ==
    /\ pc' = "raised"
    /\ err' = e
    /\ ret' = ret

\* lines 57-65
SplitEntry ==
    /\ pc = "split_text"
    /\ calls' = Append(calls, "split_text")
    /\ LET tb == Encode(text)
           max_bytes == MAX_BYTES_PER_QR[level]
       IN  /\ text_bytes' = tb
           /\ IF Len(tb) <= max_bytes
              THEN /\ parts' = <<text>>
                   /\ num_parts' = 0
                   /\ Return
              ELSE /\ num_parts' = Ceil(Len(tb), max_bytes)
                   /\ parts' = <<>>
                   /\ pc' = "split_for"
                   /\ ret' = ret
    /\ start' = 0
    /\ end' = 0
    /\ i' = 0
    /\ UNCHANGED <<level, text, facadeVars, cliVars, err>>

\* lines 69-71: the next window, or line 92 when the range is exhausted
SplitFor ==
    /\ pc = "split_for"
    /\ IF i < num_parts
       THEN /\ end' = Min(start + MAX_BYTES_PER_QR[level], Len(text_bytes))
            /\ pc' = "split_while"
            /\ ret' = ret
       ELSE /\ end' = end
            /\ Return
    /\ UNCHANGED <<level, text, text_bytes, num_parts, start, i, parts,
                   facadeVars, cliVars, err, calls>>

\* lines 74-81: one test of the while loop
SplitWhile ==
    /\ pc = "split_while"
    /\ IF end < Len(text_bytes) /\ ~CanDecode(text_bytes, start, end)
       THEN /\ end' = end - 1
            /\ pc' = "split_while"
       ELSE /\ end' = end
            /\ pc' = "split_append"
    /\ UNCHANGED <<ret, level, text, text_bytes, num_parts, start, i, parts,
                   facadeVars, cliVars, err, calls>>

\* the loop body without "start = end"
SplitAppendKeepsStart ==
    /\ pc = "split_append"
    /\ IF CanDecode(text_bytes, start, end)
       THEN LET part_text == Decode(text_bytes, start, end)
            IN  /\ parts' = Append(parts,
                        IF num_parts > 1
                        THEN PartPrefix(i + 1, num_parts) \o part_text
                        ELSE part_text)
                /\ start' = start
                /\ i' = i + 1
                /\ pc' = "split_for"
                /\ UNCHANGED <<ret, err>>
       ELSE /\ Raise("UnicodeDecodeError")
            /\ UNCHANGED <<parts, start, i>>
    /\ UNCHANGED <<level, text, text_bytes, num_parts, end,
                   facadeVars, cliVars, calls>>

\* lines 83-90
SplitAppend ==
    /\ pc = "split_append"
    /\ IF CanDecode(text_bytes, start, end)
       THEN LET part_text == Decode(text_bytes, start, end)
            IN  /\ parts' = Append(parts,
                        IF num_parts > 1
                        THEN PartPrefix(i + 1, num_parts) \o part_text
                        ELSE part_text)
                /\ start' = end
                /\ i' = i + 1
                /\ pc' = "split_for"
                /\ UNCHANGED <<ret, err>>
       ELSE /\ Raise("UnicodeDecodeError")
            /\ UNCHANGED <<parts, start, i>>
    /\ UNCHANGED <<level, text, text_bytes, num_parts, end,
                   facadeVars, cliVars, calls>>

SplitNext == SplitEntry \/ SplitFor \/ SplitWhile \/ SplitAppend

-----------------------------------------------------------------------------
(* TextToQRCode.get_text_info *)

NoInfo == [char_count |-> 0, byte_count |-> 0, max_bytes_per_qr |-> 0,
           num_qrcodes |-> -1, error_correction |-> ""]

\* lines 177-187
GetTextInfo(t, l) ==
    LET tb == Encode(t)
    IN  [char_count |-> Len(t), byte_count |-> Len(tb),
         max_bytes_per_qr |-> MAX_BYTES_PER_QR[l],
         num_qrcodes |-> Ceil(Len(tb), MAX_BYTES_PER_QR[l]),
         error_correction |-> l]

GetTextInfoCall ==
    /\ pc = "get_text_info"
    /\ calls' = Append(calls, "get_text_info")
    /\ info' = GetTextInfo(text, level)
    /\ Return
    /\ UNCHANGED <<level, text, splitVars, images, image_paths, pos, img, disk,
                   saves, cliVars, err>>

-----------------------------------------------------------------------------
(* TextToQRCode.generate_qrcode: the external encoder.  It returns an image *)
(* that decodes to the text it was given, or raises.                        *)

NoImage == [ecc |-> "", data |-> <<>>]

\* lines 104-115, when the encoder accepts the text
QrImage(t, l) == [ecc |-> l, data |-> t]

-----------------------------------------------------------------------------
(* TextToQRCode.generate_qrcode_images *)

\* line 128: the call of split_text (and line 131)
ImagesEntry ==
    /\ pc = "generate_qrcode_images"
    /\ calls' = Append(calls, "generate_qrcode_images")
    /\ pc' = "split_text"
    /\ ret' = <<"images_for">> \o ret
    /\ images' = <<>>
    /\ pos' = 0
    /\ UNCHANGED <<level, text, splitVars, info, image_paths, img, disk, saves,
                   cliVars, err>>

\* lines 132-134: the encoder returns an image for the next segment
ImagesEncode ==
    /\ pc = "images_for"
    /\ pos < Len(parts)
    /\ calls' = Append(calls, "generate_qrcode")
    /\ images' = Append(images, <<QrImage(parts[pos + 1], level), parts[pos + 1]>>)
    /\ pos' = pos + 1
    /\ UNCHANGED <<pc, ret, level, text, splitVars, info, image_paths, img, disk,
                   saves, cliVars, err>>

\* line 133: the encoder raises on the next segment
ImagesEncodeFails ==
    /\ pc = "images_for"
    /\ pos < Len(parts)
    /\ calls' = Append(calls, "generate_qrcode")
    /\ Raise("EncoderError")
    /\ UNCHANGED <<level, text, splitVars, facadeVars, cliVars>>

\* line 136
ImagesReturn ==
    /\ pc = "images_for"
    /\ pos = Len(parts)
    /\ Return
    /\ UNCHANGED <<level, text, splitVars, facadeVars, cliVars, err, calls>>

-----------------------------------------------------------------------------
(* TextToQRCode.text_to_qrcode *)

\* the file name numbered from 0 instead of 1
FilenameFromZero(prefix, idx, n) ==
    IF n > 1 THEN <<prefix, "_", idx - 1, "_of_", n, ".png">>
    ELSE <<prefix, ".png">>

\* lines 157-160, idx = i + 1: the pieces of the formatted file name
Filename(prefix, idx, n) ==
    IF n > 1 THEN <<prefix, "_", idx, "_of_", n, ".png">>
    ELSE <<prefix, ".png">>

\* the file system after content has been written to the file name
Written(d, name, content) ==
    {e \in d : e[1] # name} \cup {<<name, content>>}

\* line 150: the call of split_text (and line 153)
SaveEntry ==
    /\ pc = "text_to_qrcode"
    /\ calls' = Append(calls, "text_to_qrcode")
    /\ pc' = "split_text"
    /\ ret' = <<"save_for">> \o ret
    /\ image_paths' = <<>>
    /\ pos' = 0
    /\ UNCHANGED <<level, text, splitVars, info, images, img, disk, saves,
                   cliVars, err>>

\* lines 154-155: the encoder returns an image for the next segment
SaveEncode ==
    /\ pc = "save_for"
    /\ pos < Len(parts)
    /\ calls' = Append(calls, "generate_qrcode")
    /\ img' = QrImage(parts[pos + 1], level)
    /\ pc' = "save_write"
    /\ UNCHANGED <<ret, level, text, splitVars, info, images, image_paths, pos,
                   disk, saves, cliVars, err>>

\* the encoder's failure undoing the files written so far
SaveEncodeFailsAndRollsBack ==
    /\ pc = "save_for"
    /\ pos < Len(parts)
    /\ calls' = Append(calls, "generate_qrcode")
    /\ Raise("EncoderError")
    /\ disk' = {}
    /\ UNCHANGED <<level, text, splitVars, info, images, image_paths, pos, img,
                   saves, cliVars>>

\* line 155: the encoder raises on the next segment
SaveEncodeFails ==
    /\ pc = "save_for"
    /\ pos < Len(parts)
    /\ calls' = Append(calls, "generate_qrcode")
    /\ Raise("EncoderError")
    /\ UNCHANGED <<level, text, splitVars, facadeVars, cliVars>>

\* lines 157-163: the image is written and its name recorded
SaveWrite ==
    /\ pc = "save_write"
    /\ LET filename == Filename(env.output, pos + 1, Len(parts))
       IN  /\ saves' = Append(saves, filename)
           /\ disk' = Written(disk, filename, img)
           /\ image_paths' = Append(image_paths, filename)
    /\ pos' = pos + 1
    /\ pc' = "save_for"
    /\ UNCHANGED <<ret, level, text, splitVars, info, images, img, cliVars, err,
                   calls>>

\* line 162: img.save raises; the file is absent or holds a truncated image
SaveWriteFails ==
    /\ pc = "save_write"
    /\ LET filename == Filename(env.output, pos + 1, Len(parts))
       IN  /\ saves' = Append(saves, filename)
           /\ \E left \in {"nothing", "truncated"} :
                 disk' = IF left = "nothing" THEN disk
                         ELSE Written(disk, filename, NoImage)
    /\ Raise("OSError")
    /\ UNCHANGED <<level, text, splitVars, info, images, image_paths, pos, img,
                   cliVars, calls>>

\* line 165
SaveReturn ==
    /\ pc = "save_for"
    /\ pos = Len(parts)
    /\ Return
    /\ UNCHANGED <<level, text, splitVars, facadeVars, cliVars, err, calls>>

ImagesNext == ImagesEntry \/ ImagesEncode \/ ImagesEncodeFails \/ ImagesReturn

SaveNext ==
    \/ SaveEntry \/ SaveEncode \/ SaveEncodeFails \/ SaveWrite \/ SaveWriteFails
    \/ SaveReturn

-----------------------------------------------------------------------------
(* cli.main *)

None == [given |-> FALSE, value |-> <<>>]
Some(v) == [given |-> TRUE, value |-> v]

\* truth value of an optional string argument
Truthy(a) == a.given /\ a.value # <<>>

\* str.isspace() of one character
IsSpace(cp) ==
    \/ cp \in 9..13
    \/ cp \in 28..32
    \/ cp \in {133, 160, 5760, 8232, 8233, 8239, 8287, 12288}
    \/ cp \in 8192..8202

\* a strip that removes the space character only
StripBlanksOnly(t) ==
    LET keep == {p \in 1..Len(t) : t[p] # Ord(" ")}
    IN  IF keep = {} THEN <<>>
        ELSE SubSeq(t, CHOOSE p \in keep : \A q \in keep : p <= q,
                       CHOOSE p \in keep : \A q \in keep : p >= q)

\* str.strip()
Strip(t) ==
    LET keep == {p \in 1..Len(t) : ~IsSpace(t[p])}
    IN  IF keep = {} THEN <<>>
        ELSE SubSeq(t, CHOOSE p \in keep : \A q \in keep : p <= q,
                       CHOOSE p \in keep : \A q \in keep : p >= q)

Exit(status) ==
    /\ pc' = "exit"
    /\ exit_code' = status

\* lines 82-83
CliTextArg ==
    /\ pc = "main"
    /\ Truthy(env.text)
    /\ text' = env.text.value
    /\ source' = "text"
    /\ pc' = "cli_check"
    /\ UNCHANGED <<ret, level, splitVars, facadeVars, env, exit_code, err, calls>>

\* lines 84-85 and 15-16
CliReadFile ==
    /\ pc = "main"
    /\ ~Truthy(env.text)
    /\ Truthy(env.file)
    /\ env.file_ok = "ok"
    /\ text' = env.file_text
    /\ source' = "file"
    /\ pc' = "cli_check"
    /\ UNCHANGED <<ret, level, splitVars, facadeVars, env, exit_code, err, calls>>

\* lines 84-85 and 17-22
CliReadFileFails ==
    /\ pc = "main"
    /\ ~Truthy(env.text)
    /\ Truthy(env.file)
    /\ env.file_ok # "ok"
    /\ Exit(1)
    /\ UNCHANGED <<ret, level, text, splitVars, facadeVars, env, source, err, calls>>

\* lines 86-87 and 27-29
CliReadStdin ==
    /\ pc = "main"
    /\ ~Truthy(env.text)
    /\ ~Truthy(env.file)
    /\ env.stdin_ok
    /\ text' = env.stdin_text
    /\ source' = "stdin"
    /\ pc' = "cli_check"
    /\ UNCHANGED <<ret, level, splitVars, facadeVars, env, exit_code, err, calls>>

\* lines 86-87 and 30-32
CliStdinInterrupted ==
    /\ pc = "main"
    /\ ~Truthy(env.text)
    /\ ~Truthy(env.file)
    /\ ~env.stdin_ok
    /\ Exit(0)
    /\ UNCHANGED <<ret, level, text, splitVars, facadeVars, env, source, err, calls>>

\* lines 89-101: the empty-text test, then the converter and get_text_info
CliCheckEmpty ==
    /\ pc = "cli_check"
    /\ IF text = <<>> \/ Strip(text) = <<>>
       THEN /\ Exit(1)
            /\ ret' = ret
       ELSE /\ pc' = "get_text_info"
            /\ ret' = <<"cli_info">> \o ret
            /\ exit_code' = exit_code
    /\ UNCHANGED <<level, text, splitVars, facadeVars, env, source, err, calls>>

\* lines 115-124: the info-only exit, or the call of text_to_qrcode
CliInfoOnly ==
    /\ pc = "cli_info"
    /\ IF env.info
       THEN /\ Exit(0)
            /\ ret' = ret
       ELSE /\ pc' = "text_to_qrcode"
            /\ ret' = <<"cli_report">> \o ret
            /\ exit_code' = exit_code
    /\ UNCHANGED <<level, text, splitVars, facadeVars, env, source, err, calls>>

\* lines 126-139: os.path.getsize of every path, then the end of main
CliReport ==
    /\ pc = "cli_report"
    /\ IF \A p \in 1..Len(image_paths) : \E e \in disk : e[1] = image_paths[p]
       THEN /\ Exit(0)
            /\ err' = err
       ELSE /\ Exit(1)
            /\ err' = "OSError"
    /\ UNCHANGED <<ret, level, text, splitVars, facadeVars, env, source, calls>>

\* lines 141-143: the handler around text_to_qrcode
CliExcept ==
    /\ pc = "raised"
    /\ ret # <<>>
    /\ ret[Len(ret)] = "cli_end"
    /\ Exit(1)
    /\ UNCHANGED <<ret, level, text, splitVars, facadeVars, env, source, err, calls>>

CliNext ==
    \/ CliTextArg \/ CliReadFile \/ CliReadFileFails \/ CliReadStdin
    \/ CliStdinInterrupted \/ CliCheckEmpty \/ CliInfoOnly \/ CliReport
    \/ CliExcept

-----------------------------------------------------------------------------
(* Specifications *)

NoEnv == [text |-> None, file |-> None, info |-> FALSE, output |-> "qrcode",
          file_ok |-> "missing", file_text |-> <<>>, stdin_ok |-> FALSE,
          stdin_text |-> <<>>]

\* the state of a converter on which nothing has been called
Fresh ==
    /\ text_bytes = <<>>
    /\ num_parts = 0
    /\ start = 0
    /\ end = 0
    /\ i = 0
    /\ parts = <<>>
    /\ info = NoInfo
    /\ images = <<>>
    /\ image_paths = <<>>
    /\ pos = 0
    /\ img = NoImage
    /\ disk = {}
    /\ saves = <<>>
    /\ err = ""
    /\ source = ""
    /\ exit_code = -1
    /\ calls = <<>>

\* split_text called on a text
Init ==
    /\ level \in Levels
    /\ text \in SplitTexts(level)
    /\ pc = "split_text"
    /\ ret = <<"returned">>
    /\ env = NoEnv
    /\ Fresh

Next == SplitNext

Spec == Init /\ [][Next]_vars

\* the texts the facade is called on: empty, short, and about MaxK budgets
FacadeTexts(l) ==
    { TextOf(l, kind, k, d, 0) : kind \in {1, 3, 5}, k \in 0..MaxK, d \in {0, MaxDelta} }

\* get_text_info then generate_qrcode_images, or text_to_qrcode, called on
\* a converter of some level
InitFacade ==
    /\ level \in Levels
    /\ text \in FacadeTexts(level)
    /\ \/ pc = "get_text_info" /\ ret = <<"generate_qrcode_images", "returned">>
       \/ pc = "text_to_qrcode" /\ ret = <<"returned">>
    /\ env = NoEnv
    /\ Fresh

NextFacade == SplitNext \/ GetTextInfoCall \/ ImagesNext \/ SaveNext

SpecFacade == InitFacade /\ [][NextFacade]_vars

\* what the command line and the input sources may hold
CliTexts(l) ==
    { <<>>, <<Ord(" ")>>, <<Ord(" "), Ord("\n"), Ord("\t")>>, <<12288>>,
      <<Alphabet[1]>>, <<Ord(" "), Alphabet[3], Ord("\n")>>,
      TextOf(l, 3, 1, MaxDelta, 0) }

\* the process started with some arguments, input file and standard input
InitCli ==
    /\ level \in Levels
    /\ text = <<>>
    /\ pc = "main"
    /\ ret = <<"cli_end">>
    /\ \E a \in {None} \cup {Some(t) : t \in CliTexts(level)},
          f \in {None, Some(<<"input.txt">>)},
          fo \in {"ok", "missing", "unreadable"},
          ft \in CliTexts(level),
          so \in BOOLEAN,
          st \in CliTexts(level),
          io \in BOOLEAN :
          /\ (~f.given \/ fo # "ok") => ft = <<>>
          /\ ~f.given => fo = "missing"
          /\ ~so => st = <<>>
          /\ env = [text |-> a, file |-> f, info |-> io, output |-> "qrcode",
                    file_ok |-> fo, file_text |-> ft, stdin_ok |-> so,
                    stdin_text |-> st]
    /\ Fresh

NextCli == SplitNext \/ GetTextInfoCall \/ SaveNext \/ CliNext

SpecCli == InitCli /\ [][NextCli]_vars

-----------------------------------------------------------------------------
(* Reading segments back *)

IsDigit(c) == c >= Ord("0") /\ c <= Ord("0") + 9

RECURSIVE Val(_)
\* int() of a non-empty sequence of digits
Val(ds) ==
    IF Len(ds) = 1 THEN ds[1] - Ord("0")
    ELSE 10 * Val(SubSeq(ds, 1, Len(ds) - 1)) + (ds[Len(ds)] - Ord("0"))

\* position of the first c in seg, 0 if there is none
Find(seg, c) ==
    LET at == {p \in 1..Len(seg) : seg[p] = c}
    IN  IF at = {} THEN 0 ELSE CHOOSE p \in at : \A q \in at : p <= q

\* the marker "[<idx>/<n>]\n" a segment starts with, if it starts with one
Marker(seg) ==
    LET slash == Find(seg, Ord("/"))
        close == Find(seg, Ord("]"))
    IN  IF /\ Len(seg) >= 6
           /\ seg[1] = Ord("[")
           /\ slash > 2
           /\ close > slash + 1
           /\ Len(seg) > close
           /\ seg[close + 1] = Ord("\n")
           /\ \A p \in 2..(slash - 1) : IsDigit(seg[p])
           /\ \A p \in (slash + 1)..(close - 1) : IsDigit(seg[p])
        THEN [ok |-> TRUE, idx |-> Val(SubSeq(seg, 2, slash - 1)),
              n |-> Val(SubSeq(seg, slash + 1, close - 1)), len |-> close + 1]
        ELSE [ok |-> FALSE, idx |-> 0, n |-> 0, len |-> 0]

\* the segments with their markers removed (a lone segment carries none)
Payloads(ps) ==
    IF Len(ps) <= 1 THEN ps
    ELSE [p \in 1..Len(ps) |-> SubSeq(ps[p], Marker(ps[p]).len + 1, Len(ps[p]))]

RECURSIVE Concat(_, _)
\* the first n sequences of ss, joined
Concat(ss, n) == IF n = 0 THEN <<>> ELSE Concat(ss, n - 1) \o ss[n]

Utf8Width(cp) ==
    IF cp < 128 THEN 1 ELSE IF cp < 2048 THEN 2 ELSE IF cp < 65536 THEN 3 ELSE 4

RECURSIVE ByteLen(_, _, _)
\* number of UTF-8 bytes of the characters t[lo..hi]
ByteLen(t, lo, hi) ==
    IF lo > hi THEN 0
    ELSE IF lo = hi THEN Utf8Width(t[lo])
    ELSE ByteLen(t, lo, (lo + hi) \div 2) + ByteLen(t, ((lo + hi) \div 2) + 1, hi)

RECURSIVE BoundariesFrom(_, _, _, _)
\* byte offsets at which a character of t[lo..hi] ends, t[lo] starting at off
BoundariesFrom(t, lo, hi, off) ==
    IF lo > hi THEN {}
    ELSE IF lo = hi THEN {off + Utf8Width(t[lo])}
    ELSE LET mid == (lo + hi) \div 2
         IN  BoundariesFrom(t, lo, mid, off)
                 \cup BoundariesFrom(t, mid + 1, hi, off + ByteLen(t, lo, mid))

\* the byte offsets of t's encoding that lie between two characters
CharBoundaries(t) == {0} \cup BoundariesFrom(t, 1, Len(t), 0)

Budget == MAX_BYTES_PER_QR[level]
Returned == pc = "returned"

-----------------------------------------------------------------------------
(* Claims about split_text, checked under Spec *)

\* C1: the payloads of the returned segments, markers stripped, joined in
\* order, are the original text.
C1_PayloadsRebuildText ==
    Returned => Concat(Payloads(parts), Len(parts)) = text

\* C2: every returned segment, marker included, takes at most the budget of
\* the level in UTF-8 bytes.
C2_SegmentsFitBudget ==
    Returned => \A p \in 1..Len(parts) : ByteLen(parts[p], 1, Len(parts[p])) <= Budget

\* C4: one segment when the text takes at most the budget, otherwise the
\* least n with n budgets covering the text's bytes: 5 for 5000 one-byte
\* characters at level H, 1 for exactly a budget, 2 for one byte more.
C4_SegmentCount ==
    Returned =>
        LET b == ByteLen(text, 1, Len(text))
            n == Len(parts)
        IN  /\ b <= Budget => n = 1
            /\ b > Budget => (n - 1) * Budget < b /\ b <= n * Budget
            /\ (level = "H" /\ text = Chars(1, 5000)) => n = 5
            /\ text = Chars(1, Budget) => n = 1
            /\ text = Chars(1, Budget + 1) => n = 2

\* C4 witness: several segments were returned, one of them cut short of a
\* full window by the leftward adjustment.
C4_Witness ==
    /\ Returned
    /\ Len(parts) >= 2
    /\ \E p \in 1..(Len(parts) - 1) :
          ByteLen(Payloads(parts)[p], 1, Len(Payloads(parts)[p])) < Budget

\* C5: a lone segment is the text verbatim; of several segments the one at
\* position p starts with the marker "[p/n]" and a line break, n their number.
C5_MarkersExactlyWhenSeveral ==
    Returned =>
        IF ByteLen(text, 1, Len(text)) <= Budget
        THEN parts = <<text>>
        ELSE /\ Len(parts) > 1
             /\ \A p \in 1..Len(parts) :
                   /\ Marker(parts[p]).ok
                   /\ Marker(parts[p]).idx = p
                   /\ Marker(parts[p]).n = Len(parts)

\* C5 witness: three marked segments were returned.
C5_Witness ==
    /\ Returned
    /\ Len(parts) = 3
    /\ Marker(parts[3]).ok

\* C6: a window is cut at a character boundary of the text, and never
\* shrinks to nothing.
C6_CutsAtCharBoundaries ==
    pc = "split_append" =>
        /\ start < end
        /\ {start, end} \subseteq CharBoundaries(text)

\* C6 witness: a window whose right end was moved left is about to be cut.
C6_Witness ==
    /\ pc = "split_append"
    /\ end < Min(start + Budget, Len(text_bytes))
    /\ start < end

\* C10: the payloads are consecutive byte ranges of the text's encoding,
\* starting at byte 0, so that joined they are a prefix of the text.
C10_PayloadsAreConsecutiveRanges ==
    (Returned /\ ByteLen(text, 1, Len(text)) > Budget) =>
        LET tb  == Encode(text)
            pay == Payloads(parts)
            all == Concat(pay, Len(pay))
        IN  /\ \A p \in 1..Len(pay) :
                  LET off == ByteLen(Concat(pay, p - 1), 1, Len(Concat(pay, p - 1)))
                      pb  == Encode(pay[p])
                  IN  /\ off + Len(pb) <= Len(tb)
                      /\ pb = SubSeq(tb, off + 1, off + Len(pb))
            /\ Len(all) <= Len(text)
            /\ all = SubSeq(text, 1, Len(all))

\* C10 witness: the returned payloads are a proper prefix of the text.
C10_Witness ==
    /\ Returned
    /\ Len(parts) >= 2
    /\ Len(Concat(Payloads(parts), Len(parts))) < Len(text)

-----------------------------------------------------------------------------
(* Claims about the facade, checked under SpecFacade *)

\* the run is a call of text_to_qrcode
InPersist == calls # <<>> /\ calls[1] = "text_to_qrcode"

\* the run called generate_qrcode_images after get_text_info
InRender == \E p \in 1..Len(calls) : calls[p] = "generate_qrcode_images"

\* the name the file of segment p of n is documented to bear
PathOf(p, n) ==
    IF n = 1 THEN <<"qrcode", ".png">>
    ELSE <<"qrcode", "_", p, "_of_", n, ".png">>

\* C3: the count get_text_info reports is the number of (image, segment)
\* pairs generate_qrcode_images returns for the same text and level.
C3_InfoCountIsImageCount ==
    (Returned /\ InRender) => info.num_qrcodes = Len(images)

\* C7 as stated: when the encoder fails in text_to_qrcode, no image file has
\* been written.
C7_NoFileWhenEncoderFails ==
    (InPersist /\ err = "EncoderError") => disk = {}

\* C7 amended: when the encoder fails on segment pos + 1, the call ends with
\* that error, no path list is returned, img.save was called for segments
\* 1..pos only, and exactly their files are on disk, each holding its image.
C7_EncoderFailureKeepsEarlierFiles ==
    (InPersist /\ err = "EncoderError") =>
        /\ pc = "raised"
        /\ pos < Len(parts)
        /\ saves = [p \in 1..pos |-> PathOf(p, Len(parts))]
        /\ disk = { <<PathOf(p, Len(parts)), QrImage(parts[p], level)>> : p \in 1..pos }

\* C7 witness: the encoder failed on a later segment, after the file of an
\* earlier one was written.
C7_Witness ==
    /\ InPersist
    /\ err = "EncoderError"
    /\ pos >= 1
    /\ disk # {}

\* C8: when the write of segment k fails the call ends with that error, no
\* path list is returned, no later write is attempted and the files of
\* segments 1..k-1 are on disk with their images; when the call returns, it
\* returns the n documented names in segment order.
C8_WriteFailureKeepsEarlierFiles ==
    InPersist =>
        LET n  == Len(parts)
            kk == Len(saves)
        IN  /\ err = "OSError" =>
                  /\ pc = "raised"
                  /\ kk = pos + 1
                  /\ kk <= n
                  /\ saves = [p \in 1..kk |-> PathOf(p, n)]
                  /\ \A p \in 1..(kk - 1) :
                        <<PathOf(p, n), QrImage(parts[p], level)>> \in disk
                  /\ \A e \in disk : \E p \in 1..kk : e[1] = PathOf(p, n)
            /\ Returned =>
                  /\ image_paths = [p \in 1..n |-> PathOf(p, n)]
                  /\ disk = { <<PathOf(p, n), QrImage(parts[p], level)>> : p \in 1..n }

\* C8 witness: the write of the second of three segments failed.
C8_Witness ==
    /\ InPersist
    /\ err = "OSError"
    /\ Len(parts) = 3
    /\ Len(saves) = 2
    /\ \E e \in disk : e[1] = PathOf(1, 3)

-----------------------------------------------------------------------------
(* Claims about the command line, checked under SpecCli *)

\* empty, or nothing but white space
Blank(t) == \A p \in 1..Len(t) : IsSpace(t[p])

\* C9: once main has obtained a blank text, no method of the converter is
\* entered and no file is written, and the process can only exit with
\* status 1.
C9_BlankTextExitsBeforeConverter ==
    (source # "" /\ Blank(text)) =>
        /\ calls = <<>>
        /\ disk = {}
        /\ saves = <<>>
        /\ pc \in {"cli_check", "exit"}
        /\ pc = "exit" => exit_code = 1

\* C9 witness: the process exited with status 1 on a text of white space.
C9_Witness ==
    /\ pc = "exit"
    /\ exit_code = 1
    /\ source = "stdin"
    /\ text # <<>>
    /\ Blank(text)

====
